---- MODULE Spec2Model ----
(***************************************************************************)
(* Model of medici-data-sync: the loader/canonicalizer of lib/src/data.rs  *)
(* (check, deduplicate, sort, format_text, hashing) and the diff loop of   *)
(* src/sync.rs that turns the loaded courses and the remote metadata       *)
(* snapshot into a changeset.                                              *)
(*                                                                         *)
(* Strings are sequences of bytes (naturals), compared as Rust compares    *)
(* str (lexicographically by byte).  Option<T> is a sequence of length 0   *)
(* (None) or 1 (Some).  Uuids are naturals >= 1000, one token each (a uuid *)
(* is a fixed 16 bytes).  Vec is a sequence, HashMap a function, HashSet a *)
(* set.                                                                    *)
(***************************************************************************)
EXTENDS Integers, Sequences, FiniteSets, TLC

(* ------------------------------------------------------------------ *)
(* Bounds of the model                                                 *)
(* ------------------------------------------------------------------ *)

\* longest option list of a single-question input course
MaxOpts == 6

\* most questions of a multi-question input course
MaxQuestions == 2

\* most ids per level that only the remote snapshot knows
MaxRemoteOnly == 1

(* ------------------------------------------------------------------ *)
(* Strings                                                             *)
(* ------------------------------------------------------------------ *)

None == <<>>

Some(x) == <<x>>

\* the bytes str::trim strips (the model's texts use the space only)
WhiteSpace == {32}

RECURSIVE trim_start(_)
trim_start(s) ==
    IF s # <<>> /\ Head(s) \in WhiteSpace THEN trim_start(Tail(s)) ELSE s

RECURSIVE trim_end(_)
trim_end(s) ==
    IF s # <<>> /\ s[Len(s)] \in WhiteSpace
    THEN trim_end(SubSeq(s, 1, Len(s) - 1))
    ELSE s

trim(s) == trim_end(trim_start(s))

\* Ord for str and for Option<T>/Vec<T> of naturals: -1 Less, 0 Equal, 1 Greater
RECURSIVE cmp(_, _)
cmp(a, b) ==
    IF a = <<>> /\ b = <<>> THEN 0
    ELSE IF a = <<>> THEN -1
    ELSE IF b = <<>> THEN 1
    ELSE IF Head(a) < Head(b) THEN -1
    ELSE IF Head(a) > Head(b) THEN 1
    ELSE cmp(Tail(a), Tail(b))

\* Ord for Uuid
cmp_id(a, b) == IF a < b THEN -1 ELSE IF a > b THEN 1 ELSE 0

(* ------------------------------------------------------------------ *)
(* Hashing                                                             *)
(* ------------------------------------------------------------------ *)

\* Hashable::hash_data: the digest of hashable_data(), a fixed-length string.
\* The digest is taken injective; the brackets -1 .. -2 keep a digest one
\* self-delimiting block when its bytes are appended to a parent's bytes.
Digest(bytes) == <<-1>> \o bytes \o <<-2>>

uuid_bytes(id) == <<id>>

bool_byte(b) == IF b THEN 1 ELSE 0

\* the digests of a Vec's elements, appended in the Vec's order
\* (iter().flat_map(|x| x.hash.as_bytes()))
RECURSIVE hash_bytes(_)
hash_bytes(s) ==
    IF s = <<>> THEN <<>> ELSE Head(s).hash \o hash_bytes(Tail(s))

\* Vec<String>::join("")
RECURSIVE join(_)
join(s) == IF s = <<>> THEN <<>> ELSE Head(s) \o join(Tail(s))

(* ------------------------------------------------------------------ *)
(* QuestionOptionData                                                  *)
(* ------------------------------------------------------------------ *)

QuestionOptionData_hashable_data(o) ==
    uuid_bytes(o.id) \o o.text \o <<bool_byte(o.correct)>>
        \o (IF o.explanation # None THEN o.explanation[1] ELSE <<>>)

QuestionOptionData_new(id, text, correct, explanation) ==
    LET data == [id |-> id, question_id |-> None, text |-> text,
                 correct |-> correct, explanation |-> explanation,
                 hash |-> <<>>]
    IN [data EXCEPT !.hash = Digest(QuestionOptionData_hashable_data(data))]

\* From<RawQuestionOptionData>; the inputs of the model all carry their ids
QuestionOptionData_from(raw) ==
    QuestionOptionData_new(raw.id[1], raw.text,
                           IF raw.correct # None THEN raw.correct[1] ELSE FALSE,
                           raw.explanation)

QuestionOptionData_eq_data(a, b) ==
    /\ a.text = b.text
    /\ a.correct = b.correct
    /\ a.explanation = b.explanation

set_question_id(o, question_id) == [o EXCEPT !.question_id = Some(question_id)]

\* From<QuestionOptionData> for RawQuestionOptionData
RawQuestionOptionData_from(data) ==
    [id |-> Some(data.id), text |-> data.text,
     correct |-> IF data.correct THEN Some(data.correct) ELSE None,
     explanation |-> data.explanation]

(* ------------------------------------------------------------------ *)
(* QuestionData                                                        *)
(* ------------------------------------------------------------------ *)

QuestionData_hashable_data(q) ==
    uuid_bytes(q.id) \o q.text
        \o (IF q.image_url # None THEN q.image_url[1] ELSE <<>>)
        \o hash_bytes(q.question_options)
        \o q.evaluation \o q.source
        \o (IF q.asked_at # None THEN q.asked_at[1] ELSE <<>>)

QuestionData_new(id, text, image_url, question_options, evaluation, source, asked_at) ==
    LET data == [id |-> id, course_key |-> None, evaluation |-> evaluation,
                 source |-> source, asked_at |-> asked_at, text |-> text,
                 image_url |-> image_url, question_options |-> question_options,
                 hash |-> <<>>]
    IN [data EXCEPT !.hash = Digest(QuestionData_hashable_data(data))]

\* From<RawQuestionData>
QuestionData_from(raw) ==
    QuestionData_new(raw.id[1], raw.text, raw.image,
                     [i \in 1..Len(raw.options) |-> QuestionOptionData_from(raw.options[i])],
                     raw.evaluation, raw.source, raw.asked_at)

\* the comparator of sort_options says Less for (a, b)
sort_options_less(a, b) ==
    IF a.correct THEN TRUE
    ELSE IF b.correct THEN FALSE
    ELSE cmp(a.text, b.text) = -1

\* one insertion of the stable sort: x goes after every element it is not Less than
RECURSIVE insert_option(_, _)
insert_option(x, s) ==
    IF s = <<>> THEN <<x>>
    ELSE IF sort_options_less(x, s[Len(s)])
         THEN Append(insert_option(x, SubSeq(s, 1, Len(s) - 1)), s[Len(s)])
         ELSE Append(s, x)

RECURSIVE sorted_options(_)
sorted_options(s) ==
    IF s = <<>> THEN <<>>
    ELSE insert_option(s[Len(s)], sorted_options(SubSeq(s, 1, Len(s) - 1)))

sort_options(q) == [q EXCEPT !.question_options = sorted_options(q.question_options)]

\* Vec::dedup_by(|a, b| a.eq_data(b)): a is dropped when it equals the last kept b
RECURSIVE dedup_options(_)
dedup_options(s) ==
    IF s = <<>> THEN <<>>
    ELSE LET kept == dedup_options(SubSeq(s, 1, Len(s) - 1))
             a == s[Len(s)]
         IN IF kept # <<>> /\ QuestionOptionData_eq_data(a, kept[Len(kept)])
            THEN kept
            ELSE Append(kept, a)

deduplicate_options(q) ==
    [q EXCEPT !.question_options = dedup_options(q.question_options)]

QuestionData_eq_data(a, b) ==
    /\ a.text = b.text
    /\ a.evaluation = b.evaluation
    /\ Len(a.question_options) = Len(b.question_options)
    /\ \A i \in 1..Len(a.question_options) :
          \E j \in 1..Len(b.question_options) :
             QuestionOptionData_eq_data(a.question_options[i], b.question_options[j])

\* mutant of QuestionData_check: a question with no correct option passes
QuestionData_check_at_most_one(q) ==
    LET n == Len(q.question_options)
        correct_count == Cardinality({i \in 1..n : q.question_options[i].correct})
    IN IF n < 2 \/ n > 5 THEN FALSE
       ELSE IF correct_count > 1 THEN FALSE
       ELSE TRUE

\* TRUE: Ok(()), FALSE: bail!
QuestionData_check(q) ==
    LET n == Len(q.question_options)
        correct_count == Cardinality({i \in 1..n : q.question_options[i].correct})
    IN IF n < 2 \/ n > 5 THEN FALSE
       ELSE IF correct_count # 1 THEN FALSE
       ELSE TRUE

QuestionData_format_text(q) ==
    [q EXCEPT !.question_options =
        [i \in 1..Len(q.question_options) |->
            [q.question_options[i] EXCEPT !.text = trim(q.question_options[i].text)]]]

COURSE_EVALUATION_KEY_SEPARATOR == <<47>>

full_key(course_key, key) == course_key \o COURSE_EVALUATION_KEY_SEPARATOR \o key

\* mutant of set_course_key: the evaluation key left as the file gave it
set_course_key_unqualified(q, course_key) ==
    [q EXCEPT !.course_key = Some(course_key)]

set_course_key(q, course_key) ==
    [q EXCEPT !.course_key = Some(course_key),
              !.evaluation = full_key(course_key, q.evaluation)]

\* From<QuestionData> for RawQuestionData
RawQuestionData_from(data) ==
    [id |-> Some(data.id), text |-> data.text, image |-> data.image_url,
     options |-> [i \in 1..Len(data.question_options) |->
                     RawQuestionOptionData_from(data.question_options[i])],
     evaluation |-> data.evaluation, source |-> data.source,
     asked_at |-> data.asked_at]

(* ------------------------------------------------------------------ *)
(* CourseEvaluationData and CourseData                                 *)
(* ------------------------------------------------------------------ *)

CourseEvaluationData_hashable_data(e) == e.name

CourseEvaluationData_new(raw) ==
    LET data == [course_key |-> None, key |-> raw.key, name |-> raw.name,
                 hash |-> <<>>]
    IN [data EXCEPT !.hash = Digest(CourseEvaluationData_hashable_data(data))]

\* i16::to_be_bytes
year_bytes(year) == <<year \div 256, year % 256>>

CourseData_hashable_data(c) ==
    c.key \o c.name \o c.short_name \o join(c.aliases)
        \o (IF c.year # None THEN year_bytes(c.year[1]) ELSE <<>>)
        \o hash_bytes(c.questions)
        \o hash_bytes(c.evaluations)

CourseData_new(key, raw) ==
    LET questions == [i \in 1..Len(raw.questions) |-> QuestionData_from(raw.questions[i])]
        evaluations == [i \in 1..Len(raw.evaluations) |->
                           CourseEvaluationData_new(raw.evaluations[i])]
        data == [key |-> key, name |-> raw.name, short_name |-> raw.short_name,
                 aliases |-> raw.aliases, year |-> raw.year,
                 questions |-> questions, evaluations |-> evaluations,
                 hash |-> <<>>]
    IN [data EXCEPT !.hash = Digest(CourseData_hashable_data(data))]

\* Ord for Option<NaiveDate>; a date is the bytes of its ISO string, whose
\* order is the order of the dates
cmp_asked_at(a, b) ==
    IF a = None /\ b = None THEN 0
    ELSE IF a = None THEN -1
    ELSE IF b = None THEN 1
    ELSE cmp(a[1], b[1])

\* the comparator of CourseData::sort
question_cmp(a, b) ==
    IF cmp(a.evaluation, b.evaluation) # 0 THEN cmp(a.evaluation, b.evaluation)
    ELSE IF cmp_asked_at(a.asked_at, b.asked_at) # 0
         THEN cmp_asked_at(a.asked_at, b.asked_at)
    ELSE IF cmp(a.text, b.text) # 0 THEN cmp(a.text, b.text)
    ELSE cmp_id(a.id, b.id)

RECURSIVE insert_question(_, _)
insert_question(x, s) ==
    IF s = <<>> THEN <<x>>
    ELSE IF question_cmp(x, s[Len(s)]) = -1
         THEN Append(insert_question(x, SubSeq(s, 1, Len(s) - 1)), s[Len(s)])
         ELSE Append(s, x)

RECURSIVE sorted_questions(_)
sorted_questions(s) ==
    IF s = <<>> THEN <<>>
    ELSE insert_question(s[Len(s)], sorted_questions(SubSeq(s, 1, Len(s) - 1)))

CourseData_sort(c) ==
    LET qs == sorted_questions(c.questions)
    IN [c EXCEPT !.questions = [i \in 1..Len(qs) |-> sort_options(qs[i])]]

RECURSIVE dedup_questions(_)
dedup_questions(s) ==
    IF s = <<>> THEN <<>>
    ELSE LET kept == dedup_questions(SubSeq(s, 1, Len(s) - 1))
             a == s[Len(s)]
         IN IF kept # <<>> /\ QuestionData_eq_data(a, kept[Len(kept)])
            THEN kept
            ELSE Append(kept, a)

CourseData_deduplicate(c) ==
    LET qs == dedup_questions(c.questions)
    IN [c EXCEPT !.questions = [i \in 1..Len(qs) |-> deduplicate_options(qs[i])]]

CourseData_check(c) ==
    \A i \in 1..Len(c.questions) : QuestionData_check(c.questions[i])

CourseData_format_text(c) ==
    [c EXCEPT !.questions =
        [i \in 1..Len(c.questions) |->
            QuestionData_format_text([c.questions[i] EXCEPT !.text = trim(c.questions[i].text)])]]

\* the steps of load_and_write_formatted between check() and write()
canonicalize(c) == CourseData_format_text(CourseData_sort(CourseData_deduplicate(c)))

\* From<CourseData> for RawCourseData, what write() serializes
RawCourseData_from(data) ==
    [name |-> data.name, short_name |-> data.short_name, aliases |-> data.aliases,
     year |-> data.year,
     questions |-> [i \in 1..Len(data.questions) |-> RawQuestionData_from(data.questions[i])],
     evaluations |-> [i \in 1..Len(data.evaluations) |->
                         [key |-> data.evaluations[i].key, name |-> data.evaluations[i].name]]]

\* load_and_write_formatted(dir_entry) on the file content raw:
\* ok = FALSE is the Err of check(), with nothing written
load_and_write_formatted(key, raw) ==
    LET data == CourseData_new(key, raw)
    IN IF ~CourseData_check(data)
       THEN [ok |-> FALSE, data |-> data, file |-> raw, wrote |-> FALSE]
       ELSE LET out == canonicalize(data)
            IN [ok |-> TRUE, data |-> out, file |-> RawCourseData_from(out),
                wrote |-> TRUE]

(* ------------------------------------------------------------------ *)
(* The state of one run of the sync command                            *)
(* ------------------------------------------------------------------ *)

VARIABLES
    dir0,         \* history: the data directory as the run found it
    files,        \* the data directory: course key -> content of its file
    entries,      \* the directory entries read_dir has still to yield, in its order
    written,      \* keys of the files write() has rewritten
    courses_data, \* the Vec of loaded courses; sync() drains it
    loaded,       \* history: every course load_and_write_formatted returned
    snapshot,     \* history: the SyncMetadata as fetched
    sync_metadata,
    courses_to_sync,
    questions_to_sync,
    question_options_to_sync,
    course_evaluations_to_sync,
    posted,       \* None, or Some(the SyncData handed to sync_data)
    pc            \* "load", "diff", "done", "failed"

vars == <<dir0, files, entries, written, courses_data, loaded, snapshot, sync_metadata,
          courses_to_sync, questions_to_sync, question_options_to_sync,
          course_evaluations_to_sync, posted, pc>>

\* mutant of map_remove: the entry is looked up but left in the map
map_keep(m, k) == m

\* HashMap::remove, the map left behind
map_remove(m, k) == [x \in DOMAIN m \ {k} |-> m[x]]

\* HashMap::remove, the Option returned
map_get(m, k) == IF k \in DOMAIN m THEN Some(m[k]) ELSE None

(* ------------------------------------------------------------------ *)
(* sync(): the diff loop                                               *)
(* ------------------------------------------------------------------ *)

\* mutant of skip_course_of: the comparison of the hashes inverted
skip_course_inverted(removed, course_data) ==
    IF removed # None /\ removed[1] # course_data.hash THEN TRUE ELSE FALSE

\* the match on courses_metadata.remove(&course_data.key)
skip_course_of(removed, course_data) ==
    IF removed # None /\ removed[1] = course_data.hash THEN TRUE ELSE FALSE

\* mutant of skip_question_of: a changed course re-sends all its questions
skip_question_course_first(removed, question_data, skip_course) ==
    IF ~skip_course THEN FALSE
    ELSE IF removed # None /\ removed[1] = question_data.hash THEN TRUE
    ELSE TRUE

\* the match on questions_metadata.remove(&question_data.id)
skip_question_of(removed, question_data, skip_course) ==
    IF removed # None /\ removed[1] = question_data.hash THEN TRUE
    ELSE IF ~skip_course THEN FALSE
    ELSE TRUE

\* mutant of push_option_of: every option is pushed, its hash not compared
push_option_always(removed, question_option_data) == TRUE

\* the match on question_options_metadata.remove(&question_option_data.id):
\* TRUE when the option is pushed to question_options_to_sync
push_option_of(removed, question_option_data) ==
    IF removed # None /\ removed[1] = question_option_data.hash THEN FALSE ELSE TRUE

\* the loop over question_data.question_options.drain(..);
\* acc = [metadata: question_options_metadata, to_sync: question_options_to_sync]
RECURSIVE diff_options(_, _, _)
diff_options(options, question_id, acc) ==
    IF options = <<>> THEN acc
    ELSE LET question_option_data == set_question_id(Head(options), question_id)
             removed == map_get(acc.metadata, question_option_data.id)
             metadata == map_remove(acc.metadata, question_option_data.id)
         IN diff_options(Tail(options), question_id,
               [metadata |-> metadata,
                to_sync |-> IF push_option_of(removed, question_option_data)
                            THEN Append(acc.to_sync, question_option_data)
                            ELSE acc.to_sync])

\* whether the question's evaluation joins course_evaluations_to_sync
\* and the question questions_to_sync
push_question_of(skip_question) == ~skip_question

\* the loop over course_data.questions.drain(..); acc holds sync_metadata (md)
\* and the three collections the loop grows
RECURSIVE diff_questions(_, _, _, _)
diff_questions(questions, course_key, skip_course, acc) ==
    IF questions = <<>> THEN acc
    ELSE LET question_data == set_course_key(Head(questions), course_key)
             course_evaluations == acc.md.course_evaluations \ {question_data.evaluation}
             removed == map_get(acc.md.questions_metadata, question_data.id)
             questions_metadata == map_remove(acc.md.questions_metadata, question_data.id)
             skip_question == skip_question_of(removed, question_data, skip_course)
             opts == diff_options(question_data.question_options, question_data.id,
                        [metadata |-> acc.md.question_options_metadata,
                         to_sync |-> acc.question_options_to_sync])
             \* the options were drained out of the question that is pushed
             drained == [question_data EXCEPT !.question_options = <<>>]
             push == push_question_of(skip_question)
         IN diff_questions(Tail(questions), course_key, skip_course,
               [md |-> [acc.md EXCEPT !.course_evaluations = course_evaluations,
                                      !.questions_metadata = questions_metadata,
                                      !.question_options_metadata = opts.metadata],
                questions_to_sync |->
                    IF push THEN Append(acc.questions_to_sync, drained)
                    ELSE acc.questions_to_sync,
                question_options_to_sync |-> opts.to_sync,
                course_evaluations_to_sync |->
                    IF push
                    THEN acc.course_evaluations_to_sync \cup
                            {[course_key |-> course_key, key |-> question_data.evaluation]}
                    ELSE acc.course_evaluations_to_sync])

\* the changeset of lines 67-100, from what the loops left
sync_data_of(md, cs, qs, os, es) ==
    LET used_course_evaluation_keys == {data.key : data \in es}
    IN [courses_to_sync |-> cs,
        courses_to_delete |-> DOMAIN md.courses_metadata,
        questions_to_sync |-> qs,
        questions_to_delete |-> DOMAIN md.questions_metadata,
        question_options_to_sync |-> os,
        question_options_to_delete |-> DOMAIN md.question_options_metadata,
        course_evaluations_to_sync |-> es,
        course_evaluations_to_delete |->
            md.course_evaluations \ used_course_evaluation_keys]

(* ------------------------------------------------------------------ *)
(* Actions                                                             *)
(* ------------------------------------------------------------------ *)

\* one step of the iterator of load_courses_data_and_write_formatted:
\* the next dir entry goes through load_and_write_formatted; its Err ends
\* the collect() and, by the ? of sync(), the run
LoadCourse ==
    /\ pc = "load"
    /\ entries # <<>>
    /\ LET key == Head(entries)
           r == load_and_write_formatted(key, files[key])
       IN /\ files' = [files EXCEPT ![key] = r.file]
          /\ written' = IF r.wrote THEN written \cup {key} ELSE written
          /\ courses_data' = IF r.ok THEN Append(courses_data, r.data) ELSE courses_data
          /\ loaded' = IF r.ok THEN Append(loaded, r.data) ELSE loaded
          /\ entries' = Tail(entries)
          /\ pc' = IF ~r.ok THEN "failed"
                   ELSE IF Tail(entries) = <<>> THEN "diff" ELSE "load"
    /\ UNCHANGED <<dir0, snapshot, sync_metadata, courses_to_sync, questions_to_sync,
                   question_options_to_sync, course_evaluations_to_sync, posted>>

\* one turn of the loop over courses_data.drain(..)
DiffCourse ==
    /\ pc = "diff"
    /\ courses_data # <<>>
    /\ LET course_data == Head(courses_data)
           removed == map_get(sync_metadata.courses_metadata, course_data.key)
           skip_course == skip_course_of(removed, course_data)
           md == [sync_metadata EXCEPT
                     !.courses_metadata = map_remove(@, course_data.key)]
           acc == diff_questions(course_data.questions, course_data.key, skip_course,
                     [md |-> md,
                      questions_to_sync |-> questions_to_sync,
                      question_options_to_sync |-> question_options_to_sync,
                      course_evaluations_to_sync |-> course_evaluations_to_sync])
       IN /\ sync_metadata' = acc.md
          /\ questions_to_sync' = acc.questions_to_sync
          /\ question_options_to_sync' = acc.question_options_to_sync
          /\ course_evaluations_to_sync' = acc.course_evaluations_to_sync
          /\ courses_to_sync' =
                IF ~skip_course
                THEN Append(courses_to_sync, [course_data EXCEPT !.questions = <<>>])
                ELSE courses_to_sync
    /\ courses_data' = Tail(courses_data)
    /\ UNCHANGED <<dir0, files, entries, written, loaded, snapshot, posted, pc>>

\* after the loop: the deletions are read off sync_metadata and the SyncData
\* is handed to sync_data
PostSyncData ==
    /\ pc = "diff"
    /\ courses_data = <<>>
    /\ posted' = Some(sync_data_of(sync_metadata, courses_to_sync, questions_to_sync,
                                   question_options_to_sync, course_evaluations_to_sync))
    /\ pc' = "done"
    /\ UNCHANGED <<dir0, files, entries, written, courses_data, loaded, snapshot,
                   sync_metadata, courses_to_sync, questions_to_sync,
                   question_options_to_sync, course_evaluations_to_sync>>

Next == LoadCourse \/ DiffCourse \/ PostSyncData

(* ------------------------------------------------------------------ *)
(* Inputs: the files of the data directory and the remote snapshot     *)
(* ------------------------------------------------------------------ *)

TextA == <<97>>

TextB == <<98>>

TextSpB == <<32, 98>>

EvalM == <<109>>

EvalF == <<102>>

KeyC1 == <<99, 49>>

KeyC2 == <<99, 50>>

RawOptionWith(id, text, correct, explanation) ==
    [id |-> Some(id), text |-> text,
     correct |-> IF correct THEN Some(TRUE) ELSE None,
     explanation |-> explanation]

RawOption(id, text, correct) == RawOptionWith(id, text, correct, None)

RawQuestion(id, text, evaluation, asked_at, options) ==
    [id |-> Some(id), text |-> text, image |-> None, options |-> options,
     evaluation |-> evaluation, source |-> <<115>>, asked_at |-> asked_at]

RawCourse(questions) ==
    [name |-> <<78>>, short_name |-> <<110>>, aliases |-> << <<120>>, <<121>> >>,
     year |-> Some(2020), questions |-> questions,
     evaluations |-> << [key |-> EvalM, name |-> <<77>>] >>]

\* a file in canonical form
FileC1a ==
    RawCourse(<< RawQuestion(1001, TextA, EvalM, None,
                    << RawOption(2001, TextA, TRUE), RawOption(2002, TextB, FALSE) >>) >>)

\* a file write() changes: padded texts, the correct option last
FileC1b ==
    RawCourse(<< RawQuestion(1001, TextSpB, EvalM, None,
                    << RawOption(2002, TextSpB, FALSE), RawOption(2001, TextA, TRUE) >>) >>)

FileC2valid ==
    RawCourse(<< RawQuestion(1002, TextA, EvalM, None,
                    << RawOption(2003, TextA, TRUE), RawOption(2004, TextB, FALSE) >>) >>)

\* a question with one option: check() fails
FileC2invalid ==
    RawCourse(<< RawQuestion(1002, TextA, EvalM, None,
                    << RawOption(2003, TextA, TRUE) >>) >>)

\* the orders read_dir may yield the entries of a directory in
Orders(dir) ==
    LET n == Cardinality(DOMAIN dir)
    IN {s \in [1..n -> DOMAIN dir] : \A i, j \in 1..n : i # j => s[i] # s[j]}

\* a digest no local entity has
OtherDigest == Digest(<<>>)

\* the local entities of a set of courses, as [k, hash, group]
CourseEntities(cs) == {[k |-> c.key, hash |-> c.hash, group |-> c.key] : c \in cs}

QuestionsOf(cs) == UNION {{c.questions[i] : i \in 1..Len(c.questions)} : c \in cs}

QuestionEntities(cs) ==
    {[k |-> q.id, hash |-> q.hash, group |-> q.id] : q \in QuestionsOf(cs)}

OptionEntities(cs) ==
    UNION {{[k |-> q.question_options[i].id, hash |-> q.question_options[i].hash,
             group |-> q.id] : i \in 1..Len(q.question_options)} : q \in QuestionsOf(cs)}

Status == {"absent", "same", "other"}

\* the id -> hash map that holds entity e as status[e] says
RemoteMap(ents, status, keyed) ==
    LET st(e) == status[IF keyed THEN e.k ELSE e.group]
        present == {e \in ents : st(e) # "absent"}
    IN [k \in {e.k : e \in present} |->
           LET e == CHOOSE e \in present : e.k = k
           IN IF st(e) = "same" THEN e.hash ELSE OtherDigest]

\* ids only the remote knows: of the i-th, depth[i] says how much the remote has
RemoteOnlyOption(i) == 2900 + i

RemoteOnlyQuestion(i) == 1900 + i

RemoteOnlyCourse(i) == <<99, 57, 48 + i>>

Depths == [1..MaxRemoteOnly -> 0..4]

NoDepths == [i \in 1..MaxRemoteOnly |-> 0]

\* the SyncMetadata snapshots around the local courses cs: each local course,
\* question and option absent, with its local hash or with another hash
\* (the options one by one, or all those of a question alike), the remote-only
\* ids of depth, and a subset of the evaluation keys evals
Snapshots(cs, perOption, depths, evals) ==
    {[courses_metadata |->
          RemoteMap(CourseEntities(cs), sc, TRUE) @@
          [k \in {RemoteOnlyCourse(i) : i \in {i \in 1..MaxRemoteOnly : d[i] >= 3}}
              |-> OtherDigest],
      questions_metadata |->
          RemoteMap(QuestionEntities(cs), sq, TRUE) @@
          [k \in {RemoteOnlyQuestion(i) : i \in {i \in 1..MaxRemoteOnly : d[i] >= 2}}
              |-> OtherDigest],
      question_options_metadata |->
          RemoteMap(OptionEntities(cs), so, perOption) @@
          [k \in {RemoteOnlyOption(i) : i \in {i \in 1..MaxRemoteOnly : d[i] >= 1}}
              |-> OtherDigest],
      course_evaluations |->
          ev \cup {full_key(RemoteOnlyCourse(i), EvalM) :
                      i \in {i \in 1..MaxRemoteOnly : d[i] >= 4}}] :
        sc \in [{e.k : e \in CourseEntities(cs)} -> Status],
        sq \in [{e.k : e \in QuestionEntities(cs)} -> Status],
        so \in [{IF perOption THEN e.k ELSE e.group : e \in OptionEntities(cs)} -> Status],
        d \in depths,
        ev \in SUBSET evals}

\* the courses as CourseData::new builds them from the files of dir
NewCourses(dir) == {CourseData_new(k, dir[k]) : k \in DOMAIN dir}

InitWith(dir, order, local, md) ==
    /\ dir0 = dir
    /\ files = dir
    /\ entries = order
    /\ written = {}
    /\ courses_data = local
    /\ loaded = local
    /\ snapshot = md
    /\ sync_metadata = md
    /\ courses_to_sync = <<>>
    /\ questions_to_sync = <<>>
    /\ question_options_to_sync = <<>>
    /\ course_evaluations_to_sync = {}
    /\ posted = None
    /\ pc = IF order = <<>> THEN "diff" ELSE "load"

\* a directory of at most one course against every snapshot
InitOne ==
    \E dir \in {<<>>, KeyC1 :> FileC1a, KeyC1 :> FileC1b} :
    \E order \in Orders(dir) :
    \E md \in Snapshots(NewCourses(dir), TRUE, Depths,
                        {full_key(KeyC1, EvalM), full_key(KeyC1, EvalF)}) :
        InitWith(dir, order, <<>>, md)

\* a directory of two courses, read in either order; the second may be invalid
InitTwo ==
    \E dir \in {(KeyC1 :> FileC1a) @@ (KeyC2 :> FileC2valid),
                (KeyC1 :> FileC1a) @@ (KeyC2 :> FileC2invalid)} :
    \E order \in Orders(dir) :
    \E md \in Snapshots(NewCourses(dir), FALSE, {NoDepths},
                        {full_key(KeyC1, EvalM), full_key(KeyC2, EvalM)}) :
        InitWith(dir, order, <<>>, md)

Init == InitOne \/ InitTwo

Spec == Init /\ [][Next]_vars

(* ------------------------------------------------------------------ *)
(* The diff loop on a tree handed to it                                *)
(* ------------------------------------------------------------------ *)

\* a course whose only question has a single option, as CourseData::new
\* builds it (check() is not part of the diff loop)
FileOneOption ==
    RawCourse(<< RawQuestion(1001, TextA, EvalM, None,
                    << RawOption(2001, TextA, TRUE) >>) >>)

\* the loop of sync() started on one course built by CourseData::new,
\* against every snapshot of its course, question, options and evaluations
InitDiff ==
    \E raw \in {FileOneOption, FileC1a} :
    \E md \in Snapshots({CourseData_new(KeyC1, raw)}, TRUE, {NoDepths},
                        {full_key(KeyC1, EvalM), full_key(KeyC1, EvalF)}) :
        InitWith(<<>>, <<>>, <<CourseData_new(KeyC1, raw)>>, md)

NextDiff == DiffCourse \/ PostSyncData

SpecDiff == InitDiff /\ [][NextDiff]_vars

(* ------------------------------------------------------------------ *)
(* Properties of the changeset                                         *)
(* ------------------------------------------------------------------ *)

LocalCourses == {loaded[i] : i \in 1..Len(loaded)}

LocalQuestions == QuestionsOf(LocalCourses)

LocalOptions ==
    UNION {{q.question_options[i] : i \in 1..Len(q.question_options)} :
              q \in LocalQuestions}

\* the fully-qualified evaluation keys the local questions reference
LocalEvaluationKeys ==
    UNION {{full_key(c.key, c.questions[i].evaluation) : i \in 1..Len(c.questions)} :
              c \in LocalCourses}

IdsOf(s) == [i \in 1..Len(s) |-> s[i].id]

KeysOf(s) == [i \in 1..Len(s) |-> s[i].key]

Changeset == posted[1]

\* the scenario of C1: one course c1 with one question (evaluation m) with one
\* option; the remote has c1 under another hash, the question under its own
\* hash, no option, and the evaluation keys c1/m and c1/f
C1_Scenario ==
    /\ Len(loaded) = 1
    /\ loaded[1].key = KeyC1
    /\ Len(loaded[1].questions) = 1
    /\ loaded[1].questions[1].evaluation = EvalM
    /\ Len(loaded[1].questions[1].question_options) = 1
    /\ DOMAIN snapshot.courses_metadata = {KeyC1}
    /\ snapshot.courses_metadata[KeyC1] # loaded[1].hash
    /\ DOMAIN snapshot.questions_metadata = {loaded[1].questions[1].id}
    /\ snapshot.questions_metadata[loaded[1].questions[1].id] = loaded[1].questions[1].hash
    /\ DOMAIN snapshot.question_options_metadata = {}
    /\ snapshot.course_evaluations = {full_key(KeyC1, EvalM), full_key(KeyC1, EvalF)}

\* what C1 says of every list but course_evaluations_to_sync
C1_Rest ==
    /\ KeysOf(Changeset.courses_to_sync) = <<KeyC1>>
    /\ Changeset.questions_to_sync = <<>>
    /\ IdsOf(Changeset.question_options_to_sync) =
          IdsOf(loaded[1].questions[1].question_options)
    /\ Changeset.course_evaluations_to_delete = {full_key(KeyC1, EvalF)}
    /\ Changeset.courses_to_delete = {}
    /\ Changeset.questions_to_delete = {}
    /\ Changeset.question_options_to_delete = {}

C2_Original ==
    posted # None =>
        \A q \in LocalQuestions :
            (map_get(snapshot.questions_metadata, q.id) = None
                \/ map_get(snapshot.questions_metadata, q.id)[1] # q.hash)
            => /\ \E i \in 1..Len(Changeset.questions_to_sync) :
                     Changeset.questions_to_sync[i].id = q.id
               /\ q.id \notin Changeset.questions_to_delete

\* C3: the three delete lists are exactly the remote keys that are the
\* key/id of no local course, question and option.
C3_Deletions ==
    posted # None =>
        /\ Changeset.courses_to_delete =
              DOMAIN snapshot.courses_metadata \ {c.key : c \in LocalCourses}
        /\ Changeset.questions_to_delete =
              DOMAIN snapshot.questions_metadata \ {q.id : q \in LocalQuestions}
        /\ Changeset.question_options_to_delete =
              DOMAIN snapshot.question_options_metadata \ {o.id : o \in LocalOptions}

\* a course, a question and an option known only to the remote are deleted,
\* beside a local course whose own entries the remote also holds
C3_Witness ==
    /\ posted # None
    /\ RemoteOnlyCourse(1) \in Changeset.courses_to_delete
    /\ RemoteOnlyQuestion(1) \in Changeset.questions_to_delete
    /\ RemoteOnlyOption(1) \in Changeset.question_options_to_delete
    /\ \E c \in LocalCourses : c.key \in DOMAIN snapshot.courses_metadata
    /\ \E q \in LocalQuestions : q.id \in DOMAIN snapshot.questions_metadata
    /\ \E o \in LocalOptions : o.id \in DOMAIN snapshot.question_options_metadata

\* every local entity is in the remote maps under its own hash, the remote
\* holds nothing else, and its evaluation keys are those of the local questions
FullMatch ==
    /\ DOMAIN snapshot.courses_metadata = {c.key : c \in LocalCourses}
    /\ \A c \in LocalCourses : snapshot.courses_metadata[c.key] = c.hash
    /\ DOMAIN snapshot.questions_metadata = {q.id : q \in LocalQuestions}
    /\ \A q \in LocalQuestions : snapshot.questions_metadata[q.id] = q.hash
    /\ DOMAIN snapshot.question_options_metadata = {o.id : o \in LocalOptions}
    /\ \A o \in LocalOptions : snapshot.question_options_metadata[o.id] = o.hash
    /\ snapshot.course_evaluations = LocalEvaluationKeys

C5_Original == pc = "failed" => (written = {} /\ posted = None)

(* ------------------------------------------------------------------ *)
(* load_and_write_formatted on one course file                         *)
(* ------------------------------------------------------------------ *)

OptionKinds == {[text |-> t, correct |-> c] : t \in {TextA, TextSpB}, c \in BOOLEAN}

\* a course of one question with up to MaxOpts options
WideCourses ==
    {RawCourse(<< RawQuestion(1001, TextA, EvalM, None,
                     [i \in 1..Len(kinds) |->
                         RawOption(2000 + i, kinds[i].text, kinds[i].correct)]) >>) :
        kinds \in UNION {[1..n -> OptionKinds] : n \in 0..MaxOpts}}

\* three valid option lists: the second permutes the first, the third differs
\* from it in an explanation
OptionLists ==
    << << [text |-> TextA, correct |-> TRUE, explanation |-> None],
          [text |-> TextSpB, correct |-> FALSE, explanation |-> None] >>,
       << [text |-> TextSpB, correct |-> FALSE, explanation |-> None],
          [text |-> TextA, correct |-> TRUE, explanation |-> None] >>,
       << [text |-> TextA, correct |-> TRUE, explanation |-> None],
          [text |-> TextSpB, correct |-> FALSE, explanation |-> Some(<<101>>)] >> >>

QuestionKinds ==
    {[text |-> t, evaluation |-> e, asked_at |-> d, options |-> l] :
        t \in {TextA, TextSpB}, e \in {EvalM, EvalF},
        d \in {None, Some(<<50>>)}, l \in 1..Len(OptionLists)}

\* a course of up to MaxQuestions questions; the ids fall as the file goes on
DeepCourses ==
    {RawCourse([i \in 1..Len(kinds) |->
        RawQuestion(1100 - i, kinds[i].text, kinds[i].evaluation, kinds[i].asked_at,
            [j \in 1..Len(OptionLists[kinds[i].options]) |->
                RawOptionWith(2000 + 10 * i + j,
                              OptionLists[kinds[i].options][j].text,
                              OptionLists[kinds[i].options][j].correct,
                              OptionLists[kinds[i].options][j].explanation)])]) :
        kinds \in UNION {[1..n -> QuestionKinds] : n \in 0..MaxQuestions}}

EmptySnapshot ==
    [courses_metadata |-> <<>>, questions_metadata |-> <<>>,
     question_options_metadata |-> <<>>, course_evaluations |-> {}]

InitCanon ==
    \E raw \in WideCourses \cup DeepCourses :
        InitWith(KeyC1 :> raw, <<KeyC1>>, <<>>, EmptySnapshot)

NextCanon == LoadCourse

SpecCanon == InitCanon /\ [][NextCanon]_vars

(* ------------------------------------------------------------------ *)
(* Properties of the loaded course                                     *)
(* ------------------------------------------------------------------ *)

\* the options of all questions of a course
OptionsOfCourse(c) ==
    UNION {{c.questions[i].question_options[j] :
               j \in 1..Len(c.questions[i].question_options)} :
              i \in 1..Len(c.questions)}

\* two loaded courses carry the same hash on the course and on every question
\* and option (matched by id) that both hold
SameHashes(c, d) ==
    /\ c.hash = d.hash
    /\ \A i \in 1..Len(c.questions), j \in 1..Len(d.questions) :
          c.questions[i].id = d.questions[j].id
             => c.questions[i].hash = d.questions[j].hash
    /\ \A o \in OptionsOfCourse(c), p \in OptionsOfCourse(d) :
          o.id = p.id => o.hash = p.hash

\* the raw inputs that differ from raw in the leading or trailing whitespace of
\* one question text or one option text
PaddedInputs(raw) ==
    {[raw EXCEPT !.questions[i].text = <<32>> \o @] : i \in 1..Len(raw.questions)}
    \cup
    UNION {{[raw EXCEPT !.questions[i].options[j].text = @ \o <<32>>] :
               j \in 1..Len(raw.questions[i].options)} : i \in 1..Len(raw.questions)}

\* the raw inputs that list two neighbouring questions, or two neighbouring
\* options of a question, of raw in the other order
ReorderedInputs(raw) ==
    {[raw EXCEPT !.questions[i] = raw.questions[i + 1],
                 !.questions[i + 1] = raw.questions[i]] :
        i \in 1..(Len(raw.questions) - 1)}
    \cup
    UNION {{[raw EXCEPT !.questions[i].options[j] = raw.questions[i].options[j + 1],
                        !.questions[i].options[j + 1] = raw.questions[i].options[j]] :
               j \in 1..(Len(raw.questions[i].options) - 1)} :
              i \in 1..Len(raw.questions)}

\* C6 as stated: an input that differs from the loaded one only in the
\* whitespace around a question or option text loads with the same option,
\* question and course hashes.
C6_Original ==
    \A n \in 1..Len(loaded) :
        \A raw2 \in PaddedInputs(dir0[loaded[n].key]) :
            LET r == load_and_write_formatted(loaded[n].key, raw2)
            IN r.ok /\ SameHashes(r.data, loaded[n])

\* C7 as stated: an input that lists the same questions and options in
\* another order loads with the same question and course hashes.
C7_Original ==
    \A n \in 1..Len(loaded) :
        \A raw2 \in ReorderedInputs(dir0[loaded[n].key]) :
            LET r == load_and_write_formatted(loaded[n].key, raw2)
            IN /\ r.ok
               /\ r.data.hash = loaded[n].hash
               /\ \A i \in 1..Len(r.data.questions), j \in 1..Len(loaded[n].questions) :
                     r.data.questions[i].id = loaded[n].questions[j].id
                        => r.data.questions[i].hash = loaded[n].questions[j].hash

OptionContent(o) == <<o.text, o.correct, o.explanation>>

\* the option lists of two questions are equal up to permutation
SameOptionsUpToPermutation(a, b) ==
    /\ Len(a.question_options) = Len(b.question_options)
    /\ \A x \in {OptionContent(o) : o \in {a.question_options[i] :
                                              i \in 1..Len(a.question_options)}} :
          Cardinality({i \in 1..Len(a.question_options) :
                          OptionContent(a.question_options[i]) = x})
          = Cardinality({i \in 1..Len(b.question_options) :
                            OptionContent(b.question_options[i]) = x})

\* C8 as stated: a loaded course holds no two options of a question with equal
\* (text, correct, explanation) and no two questions with equal text, equal
\* evaluation and equal options up to permutation.
C8_Original ==
    \A n \in 1..Len(loaded) :
        LET qs == loaded[n].questions
        IN /\ \A k \in 1..Len(qs) :
                 \A i, j \in 1..Len(qs[k].question_options) :
                    i < j => OptionContent(qs[k].question_options[i])
                                # OptionContent(qs[k].question_options[j])
           /\ \A i, j \in 1..Len(qs) :
                 i < j => ~(/\ qs[i].text = qs[j].text
                            /\ qs[i].evaluation = qs[j].evaluation
                            /\ SameOptionsUpToPermutation(qs[i], qs[j]))

\* C9 as stated: in a loaded course the correct option of every question is
\* first and the others follow in non-decreasing text order, and the questions
\* are in non-decreasing order of (evaluation, asked_at, text, id).
C9_Original ==
    \A n \in 1..Len(loaded) :
        LET qs == loaded[n].questions
        IN /\ \A k \in 1..Len(qs) :
                 LET os == qs[k].question_options
                 IN /\ os # <<>> => os[1].correct
                    /\ \A i \in 2..(Len(os) - 1) : cmp(os[i].text, os[i + 1].text) # 1
           /\ \A i \in 1..(Len(qs) - 1) : question_cmp(qs[i], qs[i + 1]) # 1

\* a question as the file gave it is outside what check() accepts
OutOfBounds(q) ==
    LET n == Len(q.question_options)
    IN \/ n < 2
       \/ n > 5
       \/ Cardinality({i \in 1..n : q.question_options[i].correct}) # 1

\* the keys load_and_write_formatted has been called on
Processed == DOMAIN dir0 \ {entries[i] : i \in 1..Len(entries)}

\* C10: every question of a loaded course has 2 to 5 options and exactly one
\* correct option; a file with a question outside these bounds is rejected
\* (and only such a file), and the run fails.
C10_OptionBounds ==
    /\ \A n \in 1..Len(loaded) :
          \A k \in 1..Len(loaded[n].questions) : ~OutOfBounds(loaded[n].questions[k])
    /\ \A key \in Processed :
          LET qs == CourseData_new(key, dir0[key]).questions
              bad == \E k \in 1..Len(qs) : OutOfBounds(qs[k])
          IN /\ bad <=> key \notin {c.key : c \in LocalCourses}
             /\ bad => pc = "failed" /\ key \notin written

\* a question that came with five options has been loaded with two, the
\* deduplication having dropped three
C10_Witness ==
    \E n \in 1..Len(loaded) :
        \E k \in 1..Len(loaded[n].questions) :
            /\ Len(loaded[n].questions[k].question_options) = 2
            /\ Len(dir0[loaded[n].key].questions[k].options) = 5

\* C11 as stated: deduplicate, sort and format_text applied once more to a
\* loaded course leave its questions, their options and every text unchanged.
C11_Original ==
    \A n \in 1..Len(loaded) : canonicalize(loaded[n]).questions = loaded[n].questions

\* the raw inputs that differ from raw in one leaf field (the text, the correct
\* flag or the explanation, absent or present) of option j of question i
LeafVariants(raw, i, j) ==
    LET o == raw.questions[i].options[j]
    IN {[raw EXCEPT !.questions[i].options[j].text = t] :
           t \in {TextA, TextB, TextSpB} \ {o.text}}
       \cup
       {[raw EXCEPT !.questions[i].options[j].correct =
                        IF o.correct = None THEN Some(TRUE) ELSE None]}
       \cup
       {[raw EXCEPT !.questions[i].options[j].explanation = e] :
           e \in {None, Some(<<>>), Some(<<101>>)} \ {o.explanation}}

\* C12 as stated: a change of one leaf field of one option of a loaded file
\* changes the hash of that option, of its question and of the course, and the
\* hash of no sibling option and no sibling question.
C12_Original ==
    \A n \in 1..Len(loaded) :
        LET key == loaded[n].key
            raw == dir0[key]
            c == CourseData_new(key, raw)
        IN \A i \in 1..Len(raw.questions) :
              \A j \in 1..Len(raw.questions[i].options) :
                 \A raw2 \in LeafVariants(raw, i, j) :
                    LET d == CourseData_new(key, raw2)
                        os == c.questions[i].question_options
                        ps == d.questions[i].question_options
                    IN /\ ps[j].hash # os[j].hash
                       /\ d.questions[i].hash # c.questions[i].hash
                       /\ d.hash # c.hash
                       /\ \A k \in 1..Len(os) : k # j => ps[k].hash = os[k].hash
                       /\ \A k \in 1..Len(c.questions) :
                             k # i => d.questions[k].hash = c.questions[k].hash

\* the keys of the evaluations the changeset upserts
SyncedEvaluationKeys == {e.key : e \in Changeset.course_evaluations_to_sync}

\* C13: course_evaluations_to_delete is the remote evaluation-key set minus the
\* fully-qualified keys of all local questions, upserted or skipped; no key a
\* local question references is deleted, and no key is both upserted and deleted.
C13_EvaluationDeletes ==
    posted # None =>
        /\ Changeset.course_evaluations_to_delete =
              snapshot.course_evaluations \ LocalEvaluationKeys
        /\ Changeset.course_evaluations_to_delete \cap LocalEvaluationKeys = {}
        /\ Changeset.course_evaluations_to_delete \cap SyncedEvaluationKeys = {}

\* the changeset deletes a key no local question references while it keeps the
\* remote key of a question it skipped as unchanged
C13_Witness ==
    /\ posted # None
    /\ Changeset.course_evaluations_to_delete # {}
    /\ \E c \in LocalCourses :
          \E i \in 1..Len(c.questions) :
             /\ \A k \in 1..Len(Changeset.questions_to_sync) :
                   Changeset.questions_to_sync[k].id # c.questions[i].id
             /\ full_key(c.key, c.questions[i].evaluation) \in snapshot.course_evaluations

\* the ids of the options and of the questions the changeset upserts
SyncedOptionIds ==
    {Changeset.question_options_to_sync[k].id :
        k \in 1..Len(Changeset.question_options_to_sync)}

SyncedQuestionIds ==
    {Changeset.questions_to_sync[k].id : k \in 1..Len(Changeset.questions_to_sync)}

\* the local option is absent from the remote option-hash map or is there under
\* another hash
OptionChanged(o) ==
    \/ o.id \notin DOMAIN snapshot.question_options_metadata
    \/ snapshot.question_options_metadata[o.id] # o.hash

====
